---- MODULE Spec2Model ----
(***************************************************************************)
(* CircuitPython_Button_Handler: button_handler.py as a state machine.     *)
(*                                                                         *)
(* The handler owns one Button record per key.  The keypad scanner (an     *)
(* external producer) appends press/release events, stamped with the       *)
(* current tick, to the event queue.  ButtonHandler.update reads the       *)
(* clock, runs the time-triggered checks of every button                   *)
(* (_handle_buttons), then pops events until the queue is empty, applying  *)
(* _handle_event to each, and returns the set of inputs collected.         *)
(*                                                                         *)
(* The scanner runs asynchronously to update, so update is modelled in     *)
(* steps (UpdateBegin, DrainStep, DrainEnd, UpdateReturn) between which   *)
(* the scanner and the clock may act.                                      *)
(***************************************************************************)
EXTENDS Integers, Sequences, FiniteSets, TLC

VARIABLES
    now,          \* supervisor.ticks_ms(): the wrapping tick counter
    keys,         \* scanner: the physical state of each wired key (TRUE = down)
    produced,     \* scanner: number of events recorded so far
    script,       \* scanner: the events a scripted user produces (else <<>>)
    queue,        \* ButtonHandler._event_queue
    buttons,      \* ButtonHandler._buttons
    pc,           \* update: "idle", "handled" (_handle_buttons has returned),
                  \* "drain" (inside the while loop), "done" (at `return`)
    current_time, \* _handle_buttons: the value ticks_ms() returned
    inputs,       \* update: the local set `inputs`
    start_len,    \* this call: len(event_queue) when the while loop started
    n_drained,    \* this call: events consumed so far
    emitted,      \* this call: the inputs _handle_event returned
    merged,       \* this call: per multi-press emitted, the release stamps
                  \* of the short presses it counts
    holds,        \* history: HOLD inputs emitted for the current press
    was_held,     \* history: a poll saw the current press held >= threshold
    run_rel,      \* history: release stamps of the short presses of the run
    owed_short,   \* history: short presses released and not yet returned
    owed_long,    \* history: long presses released and not yet returned
    alone,        \* reference: per button, a handler given only the events of
                  \* that button's key and polled at the same times: its
                  \* Button and the inputs of its call of update
    call,         \* a function called on its own: <<name, arguments>>, else <<>>
    ret           \* what that call returned or raised: <<value>>, <<>> before

vars == <<now, keys, produced, script, queue, buttons, pc, current_time, inputs, start_len, n_drained, emitted, merged, holds, was_held, run_rel, owed_short, owed_long, alone, call, ret>>

\* what a call of update keeps for itself, and its history
call_vars == <<pc, current_time, inputs, start_len, n_drained, emitted, merged>>
hist_vars == <<holds, was_held, run_rel, owed_short, owed_long, alone>>
unit_vars == <<call, ret>>

-----------------------------------------------------------------------------
(* Bounds of the model *)

MaxTicks == 6       \* the clock is advanced at most this many times
MaxEvents == 4      \* the scanner records at most this many events
MaxQueue == 3       \* events waiting in the queue (max_events of the scanner)
MaxPrefix == 3      \* characters before the ending of an action name tried

-----------------------------------------------------------------------------
(* timestamp_diff and the tick period *)

_TICKS_PERIOD == 536870912          \* 1 << 29
_TICKS_MAX == _TICKS_PERIOD - 1

\* bit i of a Python int: a negative int is an unbounded two's complement
\* number, whose bits are the inverted bits of -x - 1
Bit(x, i) ==
    IF x >= 0 THEN (x \div (2 ^ i)) % 2
    ELSE 1 - ((((0 - x) - 1) \div (2 ^ i)) % 2)

\* the bits of x & mask from bit i up, for a mask that is not negative
RECURSIVE AndFrom(_, _, _)
AndFrom(x, mask, i) ==
    IF 2 ^ i > mask THEN 0
    ELSE Bit(x, i) * Bit(mask, i) * (2 ^ i) + AndFrom(x, mask, i + 1)

\* x & mask
BitAnd(x, mask) == AndFrom(x, mask, 0)

\* the mask with one bit too many
MaskedDifferencePeriodMask(time1, time2) == BitAnd(time1 - time2, _TICKS_PERIOD)

\* diff = (time1 - time2) & _TICKS_MAX, bit by bit
MaskedDifference(time1, time2) == BitAnd(time1 - time2, _TICKS_MAX)

\* timestamp_diff as the handler's steps evaluate it: the mask _TICKS_MAX is
\* 2^29 - 1, for which the masked difference is the remainder modulo 2^29
\* (C15 checks the two against each other)
timestamp_diff(time1, time2) == (time1 - time2) % (_TICKS_MAX + 1)

\* None, for Button._last_press_time
None == -1

-----------------------------------------------------------------------------
(* ButtonInitConfig and Button *)

button_amount == 2

ButtonIds == 0 .. (button_amount - 1)

ButtonInitConfig(enable_multi_press, multi_press_interval, long_press_threshold, max_multi_press) ==
    [enable_multi_press |-> enable_multi_press,
     multi_press_interval |-> multi_press_interval,
     long_press_threshold |-> long_press_threshold,
     max_multi_press |-> max_multi_press]

\* ButtonInitConfig(): the default arguments
DefaultConfig == ButtonInitConfig(TRUE, 175, 1000, 2)

Button(button_number, config) ==
    [button_number |-> button_number,
     enable_multi_press |-> config.enable_multi_press,
     long_press_threshold |-> config.long_press_threshold,
     max_multi_press |-> config.max_multi_press,
     multi_press_interval |-> config.multi_press_interval,
     last_press_time |-> None,
     press_count |-> 0,
     press_start_time |-> 0,
     is_holding |-> FALSE,
     is_pressed |-> FALSE]

\* ButtonHandler.__init__: one Button per number, configured from the dict
\* `config` (a function on a subset of the numbers), defaults for the rest.
NewButtons(config) ==
    [i \in ButtonIds |->
        Button(i, IF i \in DOMAIN config THEN config[i] ELSE DefaultConfig)]

\* the timeout condition with the test of is_pressed inverted
MultiPressTimedOutWhilePressed(button, t) ==
    /\ button.press_count > 0
    /\ button.is_pressed
    /\ timestamp_diff(t, button.last_press_time) > button.multi_press_interval

\* the timeout condition met as soon as the interval has passed, not after it
MultiPressTimedOutAtInterval(button, t) ==
    /\ button.press_count > 0
    /\ ~button.is_pressed
    /\ timestamp_diff(t, button.last_press_time) >= button.multi_press_interval

\* Button._check_multi_press_timeout: the condition
MultiPressTimedOut(button, t) ==
    /\ button.press_count > 0
    /\ ~button.is_pressed
    /\ timestamp_diff(t, button.last_press_time) > button.multi_press_interval

\* Button._is_held: the condition
IsHeld(button, t) ==
    /\ ~button.is_holding
    /\ button.is_pressed
    /\ timestamp_diff(t, button.press_start_time) >= button.long_press_threshold

-----------------------------------------------------------------------------
(* ButtonInput *)

\* f"{num}_MULTI_PRESS"
MultiPressName(num) == ToString(num) \o "_MULTI_PRESS"

\* the i-th character of a string
Char(s, i) == SubSeq(s, i, i)

\* str.endswith
EndsWith(s, suffix) ==
    /\ Len(s) >= Len(suffix)
    /\ SubSeq(s, Len(s) - Len(suffix) + 1, Len(s)) = suffix

\* action.split("_")[0]: the text before the first underscore
BeforeUnderscore(s) ==
    LET at == {i \in 1 .. Len(s) : Char(s, i) = "_"}
    IN  IF at = {} THEN s
        ELSE SubSeq(s, 1, (CHOOSE i \in at : \A j \in at : i <= j) - 1)

Digits == {"0", "1", "2", "3", "4", "5", "6", "7", "8", "9"}

DigitValue(c) ==
    CASE c = "0" -> 0 [] c = "1" -> 1 [] c = "2" -> 2 [] c = "3" -> 3
      [] c = "4" -> 4 [] c = "5" -> 5 [] c = "6" -> 6 [] c = "7" -> 7
      [] c = "8" -> 8 [] c = "9" -> 9

\* int(): blanks around the literal are dropped
RECURSIVE Strip(_)
Strip(s) ==
    IF Len(s) > 0 /\ Char(s, 1) = " " THEN Strip(SubSeq(s, 2, Len(s)))
    ELSE IF Len(s) > 0 /\ Char(s, Len(s)) = " " THEN Strip(SubSeq(s, 1, Len(s) - 1))
    ELSE s

\* int(): one sign may lead the digits
Unsigned(s) ==
    IF Len(s) > 0 /\ Char(s, 1) \in {"+", "-"} THEN SubSeq(s, 2, Len(s)) ELSE s

\* int() accepts s: otherwise it raises ValueError
IsIntLiteral(s) ==
    LET u == Unsigned(Strip(s))
    IN  Len(u) > 0 /\ \A i \in 1 .. Len(u) : Char(u, i) \in Digits

RECURSIVE Magnitude(_)
Magnitude(u) ==
    IF Len(u) = 0 THEN 0
    ELSE 10 * Magnitude(SubSeq(u, 1, Len(u) - 1)) + DigitValue(Char(u, Len(u)))

\* int(s), for a literal int() accepts
int(s) ==
    LET t == Strip(s)
    IN  IF Char(t, 1) = "-" THEN 0 - Magnitude(Unsigned(t)) ELSE Magnitude(Unsigned(t))

\* the setter raised ValueError and stored nothing
ValueError == "ValueError"

\* the setter storing the text as given, without the two replacements
ActionSetterVerbatim(action) ==
    IF action \in {"SHORT_PRESS", "LONG_PRESS", "HOLD"} THEN action
    ELSE LET Store(head) ==
                 IF ~IsIntLiteral(head) THEN ValueError
                 ELSE IF int(head) < 1 THEN ValueError
                 ELSE action
         IN  IF ~EndsWith(action, "_MULTI_PRESS") THEN ValueError
             ELSE CHOOSE stored \in {Store(head) : head \in {BeforeUnderscore(action)}} : TRUE

\* ButtonInput.action setter: the value stored in _action, or ValueError
ActionSetter(action) ==
    IF action \in {"SHORT_PRESS", "LONG_PRESS", "HOLD"} THEN action
    ELSE LET renamed == IF action = "DOUBLE_PRESS" THEN "2_MULTI_PRESS" ELSE action
             \* lines 178-183 for head, the text split off before the first "_"
             Store(head) ==
                 IF ~IsIntLiteral(head) THEN ValueError
                 ELSE IF int(head) < 1 THEN ValueError
                 ELSE IF int(head) = 1 THEN "SHORT_PRESS"
                 ELSE renamed
         IN  IF ~EndsWith(renamed, "_MULTI_PRESS") THEN ValueError
             ELSE CHOOSE stored \in {Store(head) : head \in {BeforeUnderscore(renamed)}} : TRUE

ButtonInput(action, button_number, timestamp) ==
    [action |-> ActionSetter(action),
     button_number |-> button_number,
     timestamp |-> timestamp]

\* an __eq__ that compares the actions alone
InputEqActionOnly(a, b) == a.action = b.action

\* ButtonInput.__eq__ / __hash__
InputEq(a, b) == a.action = b.action /\ a.button_number = b.button_number

\* a value with the class isinstance tests
Object(class, value) == [class |-> class, value |-> value]

\* an __eq__ that also compares the timestamps
EqWithTimestamp(self, other) ==
    IF other.class = "ButtonInput" THEN self = other.value ELSE FALSE

\* ButtonInput.__eq__(self, other), other being any object
Eq(self, other) ==
    IF other.class = "ButtonInput" THEN InputEq(self, other.value) ELSE FALSE

\* ButtonInput.__hash__: the tuple whose hash is returned
Hash(self) == <<self.action, self.button_number>>

\* set.add: an element equal to one already present is not added
SetAdd(s, input) == IF \E e \in s : InputEq(e, input) THEN s ELSE s \cup {input}

-----------------------------------------------------------------------------
(* ButtonHandler._handle_buttons *)

\* the button after the checks of one loop iteration
CheckedButton(button, t) ==
    IF IsHeld(button, t) THEN [button EXCEPT !.is_holding = TRUE]
    ELSE IF MultiPressTimedOut(button, t)
         THEN [button EXCEPT !.last_press_time = None, !.press_count = 0]
         ELSE button

\* the inputs of one loop iteration, HOLD stamped with the time at which the
\* threshold was reached instead of the time read by this call
CheckedInputsStampedAtThreshold(button, t) ==
    IF IsHeld(button, t)
    THEN {ButtonInput("HOLD", button.button_number,
                      (button.press_start_time + button.long_press_threshold) % _TICKS_PERIOD)}
    ELSE IF MultiPressTimedOut(button, t)
         THEN {ButtonInput(MultiPressName(button.press_count),
                           button.button_number, t)}
         ELSE {}

\* the inputs one loop iteration adds
CheckedInputs(button, t) ==
    IF IsHeld(button, t) THEN {ButtonInput("HOLD", button.button_number, t)}
    ELSE IF MultiPressTimedOut(button, t)
         THEN {ButtonInput(MultiPressName(button.press_count),
                           button.button_number, t)}
         ELSE {}

\* inputs of distinct buttons are never equal, so set.add reduces to union
HandleButtonsInputs(bs, t) == UNION {CheckedInputs(bs[i], t) : i \in ButtonIds}

\* the orders in which a loop can take the buttons
Orders == {o \in [1 .. button_amount -> ButtonIds] : \A i \in ButtonIds : \E p \in DOMAIN o : o[p] = i}

\* `for button in self._buttons`, the buttons taken in the order `order`: the
\* list of buttons and the set of inputs after the loop, from the list bs and
\* the set acc before it
RECURSIVE HandleButtonsLoop(_, _, _, _)
HandleButtonsLoop(order, bs, t, acc) ==
    IF order = <<>> THEN <<bs, acc>>
    ELSE HandleButtonsLoop(Tail(order),
            [bs EXCEPT ![Head(order)] = CheckedButton(bs[Head(order)], t)], t,
            IF CheckedInputs(bs[Head(order)], t) = {} THEN acc
            ELSE SetAdd(acc, CHOOSE x \in CheckedInputs(bs[Head(order)], t) : TRUE))

-----------------------------------------------------------------------------
(* ButtonHandler._handle_event *)

\* self._buttons[key_number] raises IndexError: the index is outside the
\* list of button_amount elements on either side
IndexError(key_number) ==
    key_number >= button_amount \/ key_number < 0 - button_amount

\* self._buttons[key_number]: the number of the button the list yields for
\* an index that does not raise (a negative index counts from the end)
ListIndex(key_number) ==
    IF key_number < 0 THEN button_amount + key_number ELSE key_number

Event(key_number, pressed, timestamp) ==
    [key_number |-> key_number, pressed |-> pressed, timestamp |-> timestamp]

IsShort(button, event) ==
    timestamp_diff(event.timestamp, button.press_start_time)
        < button.long_press_threshold

\* the press branch with the cap compared one press too early
PressedButtonOffByOne(button, event) ==
    [button EXCEPT
        !.is_pressed = TRUE,
        !.press_start_time = event.timestamp,
        !.last_press_time =
            IF button.press_count + 1 < button.max_multi_press
            THEN event.timestamp ELSE @,
        !.press_count = @ + 1]

\* the press branch stamping last_press_time whatever the count
PressedButtonAlwaysStamps(button, event) ==
    [button EXCEPT
        !.is_pressed = TRUE,
        !.press_start_time = event.timestamp,
        !.last_press_time = event.timestamp,
        !.press_count = @ + 1]

\* the press branch of _handle_event
PressedButton(button, event) ==
    [button EXCEPT
        !.is_pressed = TRUE,
        !.press_start_time = event.timestamp,
        !.last_press_time =
            IF button.press_count < button.max_multi_press
            THEN event.timestamp ELSE @,
        !.press_count = @ + 1]

\* the release branch with the count compared one press too early
ReleaseEmitsOneEarly(button, event) ==
    IsShort(button, event) =>
        (~button.enable_multi_press
            \/ button.press_count + 1 = button.max_multi_press)

\* the release branch emitting only once the count has passed the maximum
ReleaseEmitsPastMax(button, event) ==
    IsShort(button, event) =>
        (~button.enable_multi_press
            \/ button.press_count > button.max_multi_press)

\* the release branch returns None without touching the counters when more
\* short presses could follow
ReleaseEmits(button, event) ==
    IsShort(button, event) =>
        (~button.enable_multi_press
            \/ button.press_count = button.max_multi_press)

\* the release branch with the counters of the run kept by a long press
ReleasedButtonKeepsRun(button, event) ==
    IF ~ReleaseEmits(button, event) \/ ~IsShort(button, event)
    THEN [button EXCEPT
            !.is_pressed = FALSE,
            !.is_holding = IF IsShort(button, event) THEN @ ELSE FALSE]
    ELSE [button EXCEPT
            !.is_pressed = FALSE,
            !.last_press_time = None,
            !.press_count = 0]

ReleasedButton(button, event) ==
    IF ~ReleaseEmits(button, event)
    THEN [button EXCEPT !.is_pressed = FALSE]
    ELSE [button EXCEPT
            !.is_pressed = FALSE,
            !.is_holding = IF IsShort(button, event) THEN @ ELSE FALSE,
            !.last_press_time = None,
            !.press_count = 0]

ReleaseInput(button, event) ==
    IF IsShort(button, event)
    THEN IF ~button.enable_multi_press
         THEN ButtonInput("SHORT_PRESS", event.key_number, event.timestamp)
         ELSE ButtonInput(MultiPressName(button.max_multi_press),
                          event.key_number, event.timestamp)
    ELSE ButtonInput("LONG_PRESS", event.key_number, event.timestamp)

\* the button after _handle_event
HandledButton(button, event) ==
    IF event.pressed THEN PressedButton(button, event)
    ELSE ReleasedButton(button, event)

\* the inputs _handle_event returns: none, or one
HandledInputs(button, event) ==
    IF ~event.pressed /\ ReleaseEmits(button, event)
    THEN {ReleaseInput(button, event)}
    ELSE {}

-----------------------------------------------------------------------------
(* The reference of a button: the same code run on that button alone *)

\* a handler whose only button is `button`, between two calls of update
Alone(button) == [button |-> button, inputs |-> {}]

\* _handle_buttons of the reference: the checks of its one button at time t
AloneChecked(a, t) ==
    [button |-> CheckedButton(a.button, t), inputs |-> CheckedInputs(a.button, t)]

\* one iteration of the loop of the reference, for an event of its key
AloneHandled(a, event) ==
    [button |-> HandledButton(a.button, event),
     inputs |-> IF HandledInputs(a.button, event) # {}
                THEN SetAdd(a.inputs, CHOOSE x \in HandledInputs(a.button, event) : TRUE)
                ELSE a.inputs]

\* update of the reference returns (or raises): the next call starts empty
AloneReturned(a) == [a EXCEPT !.inputs = {}]

-----------------------------------------------------------------------------
(* History of the gestures, kept beside the program state *)

IsMultiPress(action) == action \notin {"SHORT_PRESS", "LONG_PRESS", "HOLD"}

\* the number of short presses an input reports
PressesOf(action) ==
    IF action = "SHORT_PRESS" THEN 1
    ELSE IF ~IsMultiPress(action) THEN 0
    ELSE CHOOSE n \in 2 .. (MaxEvents + 1) : MultiPressName(n) = action

\* the short presses the inputs of set s report for button i
ShortsIn(s, i) ==
    (IF \E x \in s : x.button_number = i /\ x.action = "SHORT_PRESS" THEN 1 ELSE 0)
    + (IF \E x \in s : x.button_number = i /\ IsMultiPress(x.action)
       THEN PressesOf((CHOOSE x \in s : x.button_number = i /\ IsMultiPress(x.action)).action)
       ELSE 0)

LongsIn(s, i) ==
    IF \E x \in s : x.button_number = i /\ x.action = "LONG_PRESS" THEN 1 ELSE 0

\* an N_MULTI_PRESS input of a button and the release stamps of its presses
Merged(button_number, n, releases) == [button_number |-> button_number, n |-> n, releases |-> releases]

EmptyRuns == [i \in ButtonIds |-> <<>>]
Zeros == [i \in ButtonIds |-> 0]

\* events consumed by all update calls so far
consumed == produced - Len(queue)

-----------------------------------------------------------------------------
(* The clock and the scanner (external) *)

\* the tick count at the start: two ticks before the counter wraps
StartTime == _TICKS_MAX - 1

\* supervisor.ticks_ms advances, wrapping at _TICKS_PERIOD
Tick ==
    /\ timestamp_diff(now, StartTime) < MaxTicks
    /\ now' = (now + 1) % _TICKS_PERIOD
    /\ UNCHANGED <<unit_vars, keys, produced, script, queue, buttons, call_vars, hist_vars>>

\* the scanner records a transition of key k, stamped with the current tick
Scan(k) ==
    /\ produced < MaxEvents
    /\ Len(queue) < MaxQueue
    /\ queue' = Append(queue, Event(k, ~keys[k], now))
    /\ keys' = [keys EXCEPT ![k] = ~@]
    /\ produced' = produced + 1
    /\ UNCHANGED <<unit_vars, now, script, buttons, call_vars, hist_vars>>

-----------------------------------------------------------------------------
(* ButtonHandler.update *)

\* inputs = set(); inputs.update(self._handle_buttons())
UpdateBegin ==
    /\ pc = "idle"
    /\ pc' = "handled"
    /\ current_time' = now
    /\ buttons' = [i \in ButtonIds |-> CheckedButton(buttons[i], now)]
    /\ inputs' = HandleButtonsInputs(buttons, now)
    /\ holds' = [i \in ButtonIds |-> IF IsHeld(buttons[i], now) THEN holds[i] + 1 ELSE holds[i]]
    /\ was_held' = [i \in ButtonIds |->
            \/ was_held[i]
            \/ /\ buttons[i].is_pressed
               /\ timestamp_diff(now, buttons[i].press_start_time) >= buttons[i].long_press_threshold]
    /\ merged' = {Merged(i, buttons[i].press_count, run_rel[i]) : i \in {j \in ButtonIds :
            /\ ~IsHeld(buttons[j], now)
            /\ MultiPressTimedOut(buttons[j], now)
            /\ buttons[j].press_count >= 2}}
    /\ run_rel' = [i \in ButtonIds |-> IF buttons'[i].press_count = 0 THEN <<>> ELSE run_rel[i]]
    /\ alone' = [i \in ButtonIds |-> AloneChecked(alone[i], now)]
    /\ UNCHANGED <<unit_vars, now, keys, produced, script, queue, start_len, n_drained, emitted, owed_short, owed_long>>

\* one iteration of `while i < len(event_queue)`: get_into, _handle_event
DrainStep ==
    /\ pc \in {"handled", "drain"}
    /\ 0 < Len(queue)
    /\ ~IndexError(Head(queue).key_number)
    /\ LET event == Head(queue)
           k == ListIndex(event.key_number)
           button == buttons[k]
           short == ~event.pressed /\ IsShort(button, event)
           out == HandledInputs(button, event)
       IN  /\ queue' = Tail(queue)
           /\ buttons' = [buttons EXCEPT ![k] = HandledButton(button, event)]
           /\ inputs' = IF out # {} THEN SetAdd(inputs, CHOOSE x \in out : TRUE) ELSE inputs
           /\ emitted' = emitted \cup out
           /\ holds' = IF event.pressed THEN [holds EXCEPT ![k] = 0] ELSE holds
           /\ was_held' = IF event.pressed THEN [was_held EXCEPT ![k] = FALSE] ELSE was_held
           /\ owed_short' = IF short THEN [owed_short EXCEPT ![k] = @ + 1] ELSE owed_short
           /\ owed_long' = IF ~event.pressed /\ ~short THEN [owed_long EXCEPT ![k] = @ + 1] ELSE owed_long
           /\ run_rel' =
                IF event.pressed THEN run_rel
                ELSE IF out # {} THEN [run_rel EXCEPT ![k] = <<>>]
                ELSE [run_rel EXCEPT ![k] = Append(@, event.timestamp)]
           /\ merged' =
                IF out # {} /\ short /\ IsMultiPress(ReleaseInput(button, event).action)
                THEN merged \cup {Merged(k, button.max_multi_press, Append(run_rel[k], event.timestamp))}
                ELSE merged
           /\ alone' = [i \in ButtonIds |->
                IF event.key_number = i THEN AloneHandled(alone[i], event) ELSE alone[i]]
    /\ pc' = "drain"
    /\ start_len' = IF pc = "handled" THEN Len(queue) ELSE start_len
    /\ n_drained' = n_drained + 1
    /\ UNCHANGED <<unit_vars, now, keys, produced, script, current_time>>

\* the loop condition `i < len(event_queue)` is false: the loop ends
DrainEnd ==
    /\ pc \in {"handled", "drain"}
    /\ Len(queue) = 0
    /\ pc' = "done"
    /\ UNCHANGED <<unit_vars, now, keys, produced, script, queue, buttons, current_time, inputs, start_len, n_drained, emitted, merged, hist_vars>>

\* return inputs
UpdateReturn ==
    /\ pc = "done"
    /\ pc' = "idle"
    /\ current_time' = 0
    /\ inputs' = {}
    /\ start_len' = 0
    /\ n_drained' = 0
    /\ emitted' = {}
    /\ merged' = {}
    /\ owed_short' = [i \in ButtonIds |-> owed_short[i] - ShortsIn(inputs, i)]
    /\ owed_long' = [i \in ButtonIds |-> owed_long[i] - LongsIn(inputs, i)]
    /\ alone' = [i \in ButtonIds |-> AloneReturned(alone[i])]
    /\ UNCHANGED <<unit_vars, now, keys, produced, script, queue, buttons, holds, was_held, run_rel>>

\* one iteration of the loop in which _handle_event raises IndexError: the
\* event has been taken from the queue, no button is touched
DrainRaise ==
    /\ pc \in {"handled", "drain"}
    /\ 0 < Len(queue)
    /\ IndexError(Head(queue).key_number)
    /\ queue' = Tail(queue)
    /\ pc' = "raised"
    /\ start_len' = IF pc = "handled" THEN Len(queue) ELSE start_len
    /\ n_drained' = n_drained + 1
    /\ UNCHANGED <<unit_vars, now, keys, produced, script, buttons, current_time, inputs, emitted, merged, hist_vars>>

\* the exception leaves update: the set of inputs of the call is not returned
UpdateRaise ==
    /\ pc = "raised"
    /\ pc' = "idle"
    /\ current_time' = 0
    /\ inputs' = {}
    /\ start_len' = 0
    /\ n_drained' = 0
    /\ emitted' = {}
    /\ merged' = {}
    /\ alone' = [i \in ButtonIds |-> AloneReturned(alone[i])]
    /\ UNCHANGED <<unit_vars, now, keys, produced, script, queue, buttons, holds, was_held, run_rel, owed_short, owed_long>>

-----------------------------------------------------------------------------
(* Specification: one wired key, any presses, any polling *)

interval == 2       \* multi_press_interval of the configurations explored
threshold == 3      \* long_press_threshold of the configurations explored

Configs == {ButtonInitConfig(e, interval, threshold, m) : e \in BOOLEAN, m \in 1 .. 2}

\* the handler after ButtonHandler(event_queue, button_amount, config)
Built(time, wired, config, events) ==
    /\ now = time
    /\ keys = [i \in wired |-> FALSE]
    /\ produced = 0
    /\ script = events
    /\ queue = <<>>
    /\ buttons = NewButtons(config)
    /\ pc = "idle"
    /\ current_time = 0
    /\ inputs = {}
    /\ start_len = 0
    /\ n_drained = 0
    /\ emitted = {}
    /\ merged = {}
    /\ holds = Zeros
    /\ was_held = [i \in ButtonIds |-> FALSE]
    /\ run_rel = EmptyRuns
    /\ owed_short = Zeros
    /\ owed_long = Zeros
    /\ alone = [i \in ButtonIds |-> Alone(NewButtons(config)[i])]

\* the state after construction: no function is called on its own
Constructed(time, wired, config, events) ==
    /\ Built(time, wired, config, events)
    /\ call = <<>>
    /\ ret = <<>>

Init == \E c \in Configs : Constructed(StartTime, {0}, (0 :> c), <<>>)

Next ==
    \/ Tick
    \/ \E k \in DOMAIN keys : Scan(k)
    \/ UpdateBegin
    \/ DrainStep
    \/ DrainEnd
    \/ UpdateReturn

Spec == Init /\ [][Next]_vars

-----------------------------------------------------------------------------
(* Scripted runs: one user gesture with the documented configuration, polled *)
(* at any of the poll times                                                  *)

ScenarioConfig == ButtonInitConfig(TRUE, 200, 1000, 2)

ShortPressScript == <<Event(0, TRUE, 0), Event(0, FALSE, 150)>>

DoublePressScript == ShortPressScript \o <<Event(0, TRUE, 300), Event(0, FALSE, 400)>>

ScenarioTimes == {0, 100, 150, 199, 200, 201, 250, 300, 349, 350, 351, 400, 450, 500, 601, 700}

\* the next event of the script is due
Due == produced < Len(script) /\ script[produced + 1].timestamp = now

\* the clock reaches a later poll time; no event of the script is skipped
ScenarioTick ==
    /\ ~Due
    /\ \E t \in ScenarioTimes :
        /\ t > now
        /\ produced < Len(script) => t <= script[produced + 1].timestamp
        /\ now' = t
    /\ UNCHANGED <<unit_vars, keys, produced, script, queue, buttons, call_vars, hist_vars>>

\* the scanner records the event of the script that is due
ScenarioScan ==
    /\ Due
    /\ Len(queue) < MaxQueue
    /\ queue' = Append(queue, script[produced + 1])
    /\ keys' = [keys EXCEPT ![script[produced + 1].key_number] = ~@]
    /\ produced' = produced + 1
    /\ UNCHANGED <<unit_vars, now, script, buttons, call_vars, hist_vars>>

InitScenario ==
    \E events \in {ShortPressScript, DoublePressScript} :
        Constructed(0, {0}, (0 :> ScenarioConfig), events)

NextScenario ==
    \/ ScenarioTick
    \/ ScenarioScan
    \/ UpdateBegin
    \/ DrainStep
    \/ DrainEnd
    \/ UpdateReturn

SpecScenario == InitScenario /\ [][NextScenario]_vars

-----------------------------------------------------------------------------
(* Claims *)

\* C1: in every reachable state of every button, is_holding implies is_pressed.
C1_HoldingImpliesPressed ==
    \A i \in ButtonIds : buttons[i].is_holding => buttons[i].is_pressed

\* C8: for max_multi_press >= 1, press_count > 0 implies last_press_time is not
\* None in every reachable state; the two are cleared together, so they are
\* zero / None together.
C8_CountHasTime ==
    \A i \in ButtonIds :
        buttons[i].max_multi_press >= 1 =>
            /\ buttons[i].press_count > 0 => buttons[i].last_press_time # None
            /\ buttons[i].press_count = 0 => buttons[i].last_press_time = None

\* C8 witness: a second press of a run has been handled after a first one was
\* released, and the counters carry both.
C8_Witness ==
    /\ buttons[0].press_count = 2
    /\ buttons[0].is_pressed
    /\ buttons[0].last_press_time = buttons[0].press_start_time
    /\ run_rel[0] # <<>>

\* C2: the multi-press window runs from the release of the last short press.
\* For the single short press (press at 0, release r = 150, interval 200): a
\* call whose poll reads now with diff(now, r) <= interval returns nothing, and
\* a poll with diff(now, r) > interval that finds the release handled does not
\* leave the run pending: it returns SHORT_PRESS stamped now.
C2_WindowFromRelease ==
    (pc = "done" /\ script = ShortPressScript) =>
        /\ timestamp_diff(current_time, 150) <= 200 => inputs = {}
        /\ (timestamp_diff(current_time, 150) > 200 /\ n_drained = 0 /\ consumed = 2) =>
            /\ buttons[0].press_count = 0
            /\ inputs \subseteq {ButtonInput("SHORT_PRESS", 0, current_time)}

\* nothing is left to report: no call is running, the queue is empty, every
\* button is up and no run is pending
Quiescent ==
    /\ pc = "idle"
    /\ queue = <<>>
    /\ \A i \in ButtonIds : ~buttons[i].is_pressed /\ buttons[i].press_count = 0

\* C3: every gesture is reported exactly once.  No press is returned twice
\* (the presses returned never exceed the presses released), and once the
\* queue is empty, the key is up and no run is pending, every short press and
\* every long press released has been returned.
C3_ExactlyOnce ==
    /\ \A i \in ButtonIds : owed_short[i] >= 0 /\ owed_long[i] >= 0
    /\ Quiescent => \A i \in ButtonIds : owed_short[i] = 0 /\ owed_long[i] = 0

\* C4: HOLD is emitted exactly once per held press: once a poll has found the
\* current press held for long_press_threshold or more, exactly one HOLD has
\* been emitted for that press, and never a second one.
C4_HoldOncePerPress ==
    \A i \in ButtonIds :
        /\ holds[i] <= 1
        /\ was_held[i] => holds[i] = 1

\* C5: whenever update returns N_MULTI_PRESS with N >= 2, the N short presses
\* it counts are consecutive and each release occurred within
\* multi_press_interval ticks of the previous one's release.
C5_MergedWithinInterval ==
    \A m \in merged :
        /\ Len(m.releases) = m.n
        /\ \A j \in 1 .. (Len(m.releases) - 1) :
            timestamp_diff(m.releases[j + 1], m.releases[j]) <= buttons[m.button_number].multi_press_interval

\* C6: the drain step of one update call consumes at most as many events as
\* the queue held when the drain step started.
C6_DrainBounded == pc \in {"drain", "done"} => n_drained <= start_len

\* C7: press@0, release@150, press@300, release@400 with max_multi_press = 2,
\* interval 200, threshold 1000: no call returns an action before the second
\* release is handled, and the call that handles it returns exactly
\* 2_MULTI_PRESS stamped 400 and leaves press_count = 0, last_press_time None.
C7_DoublePress ==
    (pc = "done" /\ script = DoublePressScript) =>
        /\ consumed < 4 => inputs = {}
        /\ (consumed = 4 /\ n_drained > 0) =>
            /\ inputs = {ButtonInput("2_MULTI_PRESS", 0, 400)}
            /\ buttons[0].press_count = 0
            /\ buttons[0].last_press_time = None

\* C9: with enable_multi_press false, the call that drains the release of a
\* short press returns SHORT_PRESS with the release timestamp, and no later
\* poll emits for that press: a call returns a SHORT_PRESS or multi-press for
\* the button only for a release it drained itself, and press_count is 0
\* whenever the button is up.
C9_ShortPressImmediate ==
    \A i \in ButtonIds :
        ~buttons[i].enable_multi_press =>
            /\ ~buttons[i].is_pressed => buttons[i].press_count = 0
            /\ pc = "done" =>
                /\ \A x \in emitted :
                    (x.button_number = i /\ x.action = "SHORT_PRESS") => x \in inputs
                /\ \A x \in inputs :
                    (x.button_number = i /\ x.action \notin {"HOLD", "LONG_PRESS"}) => x \in emitted

-----------------------------------------------------------------------------
(* Liveness: the application loop keeps calling update, the clock keeps      *)
(* advancing (examples/button_handler_singlebutton.py: while True: update()) *)

\* up to three presses per run, so that runs of one and of two can time out
LiveConfig == ButtonInitConfig(TRUE, interval, threshold, 3)

InitLive == Constructed(StartTime, {0}, (0 :> LiveConfig), <<>>)

\* a call of update is short: the clock and the scanner act between calls
LiveTick == pc = "idle" /\ Tick

LiveScan(k) == pc = "idle" /\ Scan(k)

NextLive ==
    \/ LiveTick
    \/ \E k \in DOMAIN keys : LiveScan(k)
    \/ UpdateBegin
    \/ DrainStep
    \/ DrainEnd
    \/ UpdateReturn

\* the clock is not stopped by the calls; every started call runs to its end
\* and the loop starts the next one
Fairness ==
    /\ SF_vars(LiveTick)
    /\ WF_vars(UpdateBegin)
    /\ WF_vars(DrainStep)
    /\ WF_vars(DrainEnd)
    /\ WF_vars(UpdateReturn)

LiveSpec == InitLive /\ [][NextLive]_vars /\ Fairness

\* button i is up with a run of n presses pending, n below max_multi_press
Pending(i, n) ==
    /\ buttons[i].press_count = n
    /\ n < buttons[i].max_multi_press
    /\ ~buttons[i].is_pressed

\* the clock can still pass the end of the window of button i
ClockHasRoom(i) ==
    timestamp_diff(buttons[i].last_press_time, StartTime) + buttons[i].multi_press_interval < MaxTicks

\* _handle_buttons has just emitted the action for n presses of button i
Resolved(i, n) ==
    /\ pc = "handled"
    /\ ButtonInput(MultiPressName(n), i, current_time) \in inputs
    /\ buttons[i].press_count = 0
    /\ buttons[i].last_press_time = None

\* C10: a pending multi-press run always resolves: a button released with
\* 0 < press_count < max_multi_press leads, under repeated polls and an
\* advancing clock, to a poll that emits the action for press_count
\* (SHORT_PRESS for 1) and leaves press_count = 0 and last_press_time None,
\* unless a further press of the button is handled first.
C10_PendingRunResolves ==
    \A i \in ButtonIds : \A n \in 1 .. 2 :
        (Pending(i, n) /\ ClockHasRoom(i)) ~> (Resolved(i, n) \/ buttons[i].is_pressed)

\* C10 witness: the timeout path has just reported a pending run of two
C10_Witness == Resolved(0, 2) /\ "2_MULTI_PRESS" \in {x.action : x \in inputs}

-----------------------------------------------------------------------------
(* The phases of a call of update *)

\* the inputs of this call that only _handle_buttons can have built
FromChecks == {x \in inputs : x \notin emitted}

\* C11, the state part: while a call runs, nothing is drained before the checks
\* have run; every input the checks added is a HOLD or a timeout action stamped
\* with the one time the call read; the set to return is the union (as a set of
\* ButtonInput, which compares action and button number) of the inputs of the
\* checks and the inputs the events produced; events are applied oldest first,
\* so the key's presses and releases reach the button alternating and the
\* event at the head of the queue is never older than the last press applied.
C11_Phases ==
    /\ pc = "handled" => (n_drained = 0 /\ emitted = {})
    /\ \A x \in FromChecks : x.timestamp = current_time /\ x.action # "LONG_PRESS"
    /\ \A e \in emitted : \E x \in inputs : InputEq(x, e)
    /\ buttons[0].is_pressed <=> (consumed % 2 = 1)
    /\ (queue # <<>> /\ consumed > 0) =>
            timestamp_diff(Head(queue).timestamp, buttons[0].press_start_time) <= MaxTicks

\* C11, the step part: between two calls the button state is left as the
\* previous call left it; the checks do not touch the queue; inside a call the
\* set of inputs only grows; the loop is left with the queue empty, and from
\* then to the return only the producer can put anything into it.
C11_PhaseSteps ==
    /\ (pc = "idle" /\ pc' = "idle") => buttons' = buttons
    /\ (pc = "idle" /\ pc' = "handled") => queue' = queue
    /\ (pc \in {"handled", "drain"} /\ pc' \in {"drain", "done"}) =>
            \A x \in inputs : x \in inputs'
    /\ (pc # "done" /\ pc' = "done") => queue' = <<>>
    /\ (pc = "done" /\ produced' = produced) => queue' = queue

\* C11: each call runs the checks of every button against one reading of the
\* clock, on the state the previous call left, then applies the queued events
\* in arrival order; it returns the union of the inputs of both phases, and
\* without a concurrent producer the queue is empty when it returns.
C11_ChecksThenFifoDrain == []C11_Phases /\ [][C11_PhaseSteps]_vars

\* C11 witness: a call is about to return a HOLD built by the checks together
\* with an input of the two events it then drained, the queue being empty.
C11_Witness ==
    /\ pc = "done"
    /\ queue = <<>>
    /\ n_drained >= 2
    /\ \E x \in FromChecks : x.action = "HOLD"
    /\ emitted # {}
    /\ emitted \subseteq inputs

-----------------------------------------------------------------------------
(* _handle_event, one event at a time *)

\* this step is one iteration of the loop: Head(queue) goes to _handle_event
Handling == n_drained' = n_drained + 1

\* the time the key was down, as the release branch computes it
HeldFor(k) == timestamp_diff(Head(queue).timestamp, buttons[k].press_start_time)

\* C12: processing a release whose held duration is long_press_threshold or
\* more returns LONG_PRESS (and nothing else) for the button, stamped with the
\* event's timestamp, and leaves is_pressed and is_holding false, press_count 0
\* and last_press_time None, whatever run was pending.
C12_LongPressResets ==
    [][\A k \in ButtonIds :
        (/\ Handling
         /\ Head(queue).key_number = k
         /\ ~Head(queue).pressed
         /\ HeldFor(k) >= buttons[k].long_press_threshold) =>
            /\ [action |-> "LONG_PRESS", button_number |-> k,
                timestamp |-> Head(queue).timestamp] \in emitted'
            /\ \A x \in emitted' \ emitted : x.action = "LONG_PRESS"
            /\ ~buttons'[k].is_pressed
            /\ ~buttons'[k].is_holding
            /\ buttons'[k].press_count = 0
            /\ buttons'[k].last_press_time = None]_vars

\* C12 witness: a long press for which HOLD was reported has just been
\* released while an unreported short press of the run was pending; the
\* counters and is_holding are reset.
C12_Witness ==
    /\ pc = "drain"
    /\ \E x \in emitted : x.action = "LONG_PRESS" /\ x.button_number = 0
    /\ \A x \in inputs : x.action \in {"LONG_PRESS", "HOLD"}
    /\ owed_short[0] >= 1
    /\ holds[0] = 1
    /\ ~buttons[0].is_holding
    /\ ~buttons[0].is_pressed
    /\ buttons[0].press_count = 0

-----------------------------------------------------------------------------
(* The actions the handler reports *)

\* what the setter stores for the two names it replaces
StoredForAliases ==
    /\ ButtonInput("1_MULTI_PRESS", 0, 0).action = "SHORT_PRESS"
    /\ ButtonInput("DOUBLE_PRESS", 0, 0).action = "2_MULTI_PRESS"

\* the actions of a handler: the three names, and N_MULTI_PRESS from N = 2
ReportedActions ==
    {"SHORT_PRESS", "LONG_PRESS", "HOLD"} \cup {MultiPressName(n) : n \in 2 .. (MaxEvents + 1)}

\* C13, the state part: no input built by a call carries 1_MULTI_PRESS, every
\* multi-press reported counts two presses or more, and the setter stores
\* SHORT_PRESS for 1_MULTI_PRESS and 2_MULTI_PRESS for DOUBLE_PRESS.
C13_Stored ==
    /\ \A x \in inputs \cup emitted :
            x.action # "1_MULTI_PRESS" /\ x.action \in ReportedActions
    /\ StoredForAliases

\* C13, the step part: a run of one press that times out is reported as
\* SHORT_PRESS stamped with the time of the poll, and with max_multi_press = 1
\* the release of a short press is reported as SHORT_PRESS stamped with the
\* release.
C13_RunOfOne ==
    \A i \in ButtonIds :
        /\ (/\ pc = "idle" /\ pc' = "handled"
            /\ ~IsHeld(buttons[i], now)
            /\ MultiPressTimedOut(buttons[i], now)
            /\ buttons[i].press_count = 1) =>
                [action |-> "SHORT_PRESS", button_number |-> i, timestamp |-> now] \in inputs'
        /\ (/\ Handling
            /\ Head(queue).key_number = i
            /\ ~Head(queue).pressed
            /\ HeldFor(i) < buttons[i].long_press_threshold
            /\ buttons[i].enable_multi_press
            /\ buttons[i].max_multi_press = 1
            /\ buttons[i].press_count = 1) =>
                [action |-> "SHORT_PRESS", button_number |-> i,
                 timestamp |-> Head(queue).timestamp] \in emitted'

\* C13: no ButtonInput carries 1_MULTI_PRESS; on the timeout path and on the
\* release path (max_multi_press = 1 included) a run of one press is reported
\* as SHORT_PRESS, and DOUBLE_PRESS is stored as 2_MULTI_PRESS.
C13_NoSingleMultiPress == []C13_Stored /\ [][C13_RunOfOne]_vars

\* C13 witness: with multi-press enabled and max_multi_press = 1, the release
\* of a short press has just been reported as SHORT_PRESS.
C13_Witness ==
    /\ pc = "drain"
    /\ buttons[0].enable_multi_press
    /\ buttons[0].max_multi_press = 1
    /\ \E x \in emitted : x.action = "SHORT_PRESS" /\ x.button_number = 0

-----------------------------------------------------------------------------
(* Events of keys the handler has no button for *)

\* the key numbers the queue delivers: a key of the handler, and key numbers
\* on either side of 0 .. button_amount - 1
DeliveredKeys == {-1, 0, button_amount}

StrayConfig == ButtonInitConfig(TRUE, interval, threshold, 2)

InitStray == Constructed(StartTime, DeliveredKeys, (0 :> StrayConfig), <<>>)

NextStray ==
    \/ LiveTick
    \/ \E k \in DOMAIN keys : LiveScan(k)
    \/ UpdateBegin
    \/ DrainStep
    \/ DrainRaise
    \/ DrainEnd
    \/ UpdateReturn
    \/ UpdateRaise

SpecStray == InitStray /\ [][NextStray]_vars

\* C14: an event whose key number lies outside 0 .. button_amount - 1 makes
\* update fail with an error: the step that hands it to _handle_event raises,
\* and the state of no button is changed.
C14_StrayEventFails ==
    [][(Handling /\ Head(queue).key_number \notin ButtonIds) =>
            (pc' = "raised" /\ buttons' = buttons)]_vars

-----------------------------------------------------------------------------
(* The functions and constructors of the module, called on their own *)

handler_vars == <<now, keys, produced, script, queue, buttons, call_vars, hist_vars>>

\* tick values at both ends and in the middle of the period
TickSamples ==
    {0, 1, 5, 1000, 268435455, 268435456, _TICKS_PERIOD - 5, _TICKS_PERIOD - 2, _TICKS_MAX}

\* numbers of ticks elapsed, from none to a whole period less one
ElapsedSamples ==
    {0, 1, 9, 10, 1000, 10000, 90000, 268435455, 268435456, _TICKS_PERIOD - 2, _TICKS_MAX}

\* timestamp_diff(time1, time2) with time1 some ticks after time2, wrapped
TimestampDiffCalls ==
    {<<"timestamp_diff", (b + d) % _TICKS_PERIOD, b>> : b \in TickSamples, d \in ElapsedSamples}

CallTimestampDiff ==
    /\ call # <<>>
    /\ call[1] = "timestamp_diff"
    /\ ret = <<>>
    /\ ret' = <<MaskedDifference(call[2], call[3])>>
    /\ UNCHANGED <<call, handler_vars>>

\* the action names the tests construct inputs with
ActionTexts ==
    {"SHORT_PRESS", "LONG_PRESS", "HOLD", "DOUBLE_PRESS",
     "1_MULTI_PRESS", "2_MULTI_PRESS", "3_MULTI_PRESS"}

\* ButtonInput objects, and objects of other classes resembling them
InputSamples ==
    {ButtonInput(a, n, t) : a \in ActionTexts, n \in 0 .. 1, t \in {0, 7}}

OtherSamples ==
    {Object("str", "HOLD"), Object("str", "2_MULTI_PRESS"),
     Object("tuple", <<"HOLD", 0>>), Object("NoneType", <<>>)}

\* a == b and hash(a) == hash(b) for two inputs; a == b for another object
CompareCalls ==
    {<<"==", x, o>> : x \in InputSamples,
        o \in {Object("ButtonInput", y) : y \in InputSamples} \cup OtherSamples}

CallCompare ==
    /\ call # <<>>
    /\ call[1] = "=="
    /\ ret = <<>>
    /\ ret' = IF call[3].class = "ButtonInput"
              THEN <<Eq(call[2], call[3]), Hash(call[2]) = Hash(call[3].value)>>
              ELSE <<Eq(call[2], call[3])>>
    /\ UNCHANGED <<call, handler_vars>>

\* the characters tried in front of the ending of an action name
PrefixChars == {"0", "1", "2", "-", "+", ".", " ", "w", "_"}

\* the strings of at most n of these characters
RECURSIVE Strings(_)
Strings(n) ==
    IF n = 0 THEN {""}
    ELSE LET shorter == Strings(n - 1)
         IN  shorter \cup {p \o c : p \in shorter, c \in PrefixChars}

\* the endings tried: the suffix of the multi-press names and misspellings
Endings == {"_MULTI_PRESS", "_MULTI_PRESS_", "_MULTI_PRES", "MULTI_PRESS", ""}

\* input_.action = text, on an input that stores LONG_PRESS
SetActionCalls ==
    {<<"action=", ButtonInput("LONG_PRESS", 0, 0), text>> :
        text \in {p \o e : p \in Strings(MaxPrefix), e \in Endings}
                 \cup ActionTexts \cup {"hold", "HOLD_", "TRIPLE_PRESS"}}

\* the setter stores the action, or raises and stores nothing
CallSetAction ==
    /\ call # <<>>
    /\ call[1] = "action="
    /\ ret = <<>>
    /\ ret' = IF ActionSetter(call[3]) = ValueError
              THEN <<call[2], "ValueError">>
              ELSE <<[call[2] EXCEPT !.action = ActionSetter(call[3])], "stored">>
    /\ UNCHANGED <<call, handler_vars>>

\* try: conf = config[i]; except KeyError: conf = ButtonInitConfig()
ConfigFor(config, i) == IF i \in DOMAIN config THEN config[i] ELSE DefaultConfig

\* while i < button_amount: self._buttons.append(Button(i, conf)); i += 1
\* The amount is given in tenths (12 stands for 1.2), as Python compares an
\* int with a float by value.
RECURSIVE AppendButtons(_, _, _)
AppendButtons(i, tenths, config) ==
    IF 10 * i < tenths
    THEN <<Button(i, ConfigFor(config, i))>> \o AppendButtons(i + 1, tenths, config)
    ELSE <<>>

\* ButtonHandler.__init__: ValueError, or the list self._buttons
ButtonHandlerInit(tenths, config) ==
    IF tenths < 10 THEN <<"ValueError", <<>>>>
    ELSE <<"built", AppendButtons(0, tenths, config)>>

\* the amounts tried, in tenths: -1, 0, 0.5, 1, 1.2, 2, 2.5, 3
AmountSamples == {-10, 0, 5, 10, 12, 20, 25, 30}

\* the config dicts tried: any of two configurations for any of the numbers
ConfigSamples ==
    UNION {[d -> {ScenarioConfig, ButtonInitConfig(FALSE, 5, 6, 7)}] : d \in SUBSET {0, 1, 3}}

ConstructCalls ==
    {<<"ButtonHandler", tenths, config>> : tenths \in AmountSamples, config \in ConfigSamples}

CallConstruct ==
    /\ call # <<>>
    /\ call[1] = "ButtonHandler"
    /\ ret = <<>>
    /\ ret' = ButtonHandlerInit(call[2], call[3])
    /\ UNCHANGED <<call, handler_vars>>

Calls == TimestampDiffCalls \cup CompareCalls \cup SetActionCalls \cup ConstructCalls

InitCalls ==
    /\ Built(0, {0}, <<>>, <<>>)
    /\ call \in Calls
    /\ ret = <<>>

NextCalls ==
    \/ CallTimestampDiff
    \/ CallCompare
    \/ CallSetAction
    \/ CallConstruct

SpecCalls == InitCalls /\ [][NextCalls]_vars

\* the call under test is a call of f and has returned
Returned(f) == call # <<>> /\ call[1] = f /\ ret # <<>>

C16_EqualityIgnoresTimestamp ==
    Returned("==") =>
        IF call[3].class = "ButtonInput"
        THEN LET same == /\ call[2].action = call[3].value.action
                         /\ call[2].button_number = call[3].value.button_number
             IN  (ret[1] <=> same) /\ (ret[2] <=> same)
        ELSE ret[1] = FALSE

\* C16 witness: two inputs with the same action and button number and
\* different timestamps have compared equal, with equal hashes.
C16_Witness ==
    /\ Returned("==")
    /\ call[3].class = "ButtonInput"
    /\ call[2].timestamp # call[3].value.timestamp
    /\ call[2].action = "2_MULTI_PRESS"
    /\ ret = <<TRUE, TRUE>>

\* the action names the setter is to accept: the four names, and a positive
\* integer (as int() reads one) directly followed by _MULTI_PRESS
WellFormed(text) ==
    \/ text \in {"SHORT_PRESS", "LONG_PRESS", "HOLD", "DOUBLE_PRESS"}
    \/ /\ EndsWith(text, "_MULTI_PRESS")
       /\ IsIntLiteral(SubSeq(text, 1, Len(text) - Len("_MULTI_PRESS")))
       /\ int(SubSeq(text, 1, Len(text) - Len("_MULTI_PRESS"))) >= 1

\* C17: setting the action to a string that is none of SHORT_PRESS,
\* LONG_PRESS, HOLD, DOUBLE_PRESS or a positive integer directly followed by
\* _MULTI_PRESS raises ValueError and leaves the stored action as it was.
C17_InvalidActionRejected ==
    (Returned("action=") /\ ~WellFormed(call[3])) =>
        (ret[2] = "ValueError" /\ ret[1] = call[2])

\* C18: constructing a ButtonHandler with a button amount that is not a
\* positive integer (0, negative, or a non-integer such as 1.2) raises
\* ValueError and builds nothing; with a positive integer n it builds exactly
\* n fresh buttons numbered 0 .. n - 1, each configured from the entry of the
\* dict under its number, or with the defaults when there is none.
C18_ButtonAmountValidated ==
    Returned("ButtonHandler") =>
        LET tenths == call[2]
            config == call[3]
            n == tenths \div 10
        IN  IF tenths % 10 = 0 /\ n >= 1
            THEN /\ ret[1] = "built"
                 /\ Len(ret[2]) = n
                 /\ \A i \in 0 .. (n - 1) :
                        ret[2][i + 1] =
                            Button(i, IF i \in DOMAIN config THEN config[i]
                                      ELSE ButtonInitConfig(TRUE, 175, 1000, 2))
            ELSE ret = <<"ValueError", <<>>>>

-----------------------------------------------------------------------------
(* The release of a short press, and the press *)

\* the action reporting a run of n presses
ActionFor(n) == IF n = 1 THEN "SHORT_PRESS" ELSE MultiPressName(n)

\* the input an event yields for an action: the event's key number and stamp
InputOf(action, event) ==
    [action |-> action, button_number |-> event.key_number, timestamp |-> event.timestamp]

\* C19: handing _handle_event a release held for less than
\* long_press_threshold returns SHORT_PRESS when enable_multi_press is false;
\* otherwise the action for max_multi_press when press_count = max_multi_press;
\* otherwise nothing, with press_count and last_press_time unchanged.  The
\* input returned carries the event's key number and timestamp, and a release
\* that returns one leaves press_count = 0 and last_press_time = None.
C19_ShortRelease ==
    [][\A k \in ButtonIds :
        (/\ Handling
         /\ Head(queue).key_number = k
         /\ ~Head(queue).pressed
         /\ HeldFor(k) < buttons[k].long_press_threshold) =>
            IF ~buttons[k].enable_multi_press \/ buttons[k].press_count = buttons[k].max_multi_press
            THEN /\ InputOf(IF ~buttons[k].enable_multi_press THEN "SHORT_PRESS"
                            ELSE ActionFor(buttons[k].max_multi_press), Head(queue)) \in emitted'
                 /\ Cardinality(emitted' \ emitted) <= 1
                 /\ buttons'[k].press_count = 0
                 /\ buttons'[k].last_press_time = None
            ELSE /\ emitted' = emitted
                 /\ inputs' = inputs
                 /\ buttons'[k].press_count = buttons[k].press_count
                 /\ buttons'[k].last_press_time = buttons[k].last_press_time]_vars

\* C19 witness: the release of the second short press of a run has just been
\* reported as 2_MULTI_PRESS, stamped with the release, the counters reset.
C19_Witness ==
    /\ pc = "drain"
    /\ buttons[0].max_multi_press = 2
    /\ \E x \in emitted : x.action = "2_MULTI_PRESS" /\ x.button_number = 0
    /\ ~buttons[0].is_pressed
    /\ buttons[0].press_count = 0
    /\ buttons[0].last_press_time = None

-----------------------------------------------------------------------------
(* A queue that overflows: the scanner drops the events a full queue cannot *)
(* take, so a press can follow a press                                      *)

\* a transition of key k while the queue is full: the event is lost
Overflow(k) ==
    /\ Len(queue) = MaxQueue
    /\ keys' = [keys EXCEPT ![k] = ~@]
    /\ UNCHANGED <<unit_vars, now, produced, script, queue, buttons, call_vars, hist_vars>>

LiveOverflow(k) == pc = "idle" /\ Overflow(k)

InitLossy == \E c \in Configs : Constructed(StartTime, {0}, (0 :> c), <<>>)

NextLossy ==
    \/ LiveTick
    \/ \E k \in DOMAIN keys : LiveScan(k)
    \/ \E k \in DOMAIN keys : LiveOverflow(k)
    \/ UpdateBegin
    \/ DrainStep
    \/ DrainEnd
    \/ UpdateReturn

SpecLossy == InitLossy /\ [][NextLossy]_vars

\* C20: handing _handle_event a press returns nothing and changes only the
\* button the event addresses: is_pressed becomes true, press_start_time the
\* event's timestamp, last_press_time the event's timestamp only when
\* press_count was below max_multi_press, press_count grows by exactly 1, and
\* is_holding (like the configuration) stays as it was.
C20_PressFrame ==
    [][\A k \in ButtonIds :
        (Handling /\ Head(queue).key_number = k /\ Head(queue).pressed) =>
            /\ emitted' = emitted
            /\ inputs' = inputs
            /\ \A j \in ButtonIds \ {k} : buttons'[j] = buttons[j]
            /\ buttons'[k] =
                    [button_number |-> buttons[k].button_number,
                     enable_multi_press |-> buttons[k].enable_multi_press,
                     long_press_threshold |-> buttons[k].long_press_threshold,
                     max_multi_press |-> buttons[k].max_multi_press,
                     multi_press_interval |-> buttons[k].multi_press_interval,
                     last_press_time |->
                        IF buttons[k].press_count < buttons[k].max_multi_press
                        THEN Head(queue).timestamp
                        ELSE buttons[k].last_press_time,
                     press_count |-> buttons[k].press_count + 1,
                     press_start_time |-> Head(queue).timestamp,
                     is_holding |-> buttons[k].is_holding,
                     is_pressed |-> TRUE]]_vars

\* C20 witness: a press has been handled while press_count had reached
\* max_multi_press (the release before it was lost): the count has grown
\* past the maximum and last_press_time still is the stamp of an earlier press.
C20_Witness ==
    /\ pc = "drain"
    /\ buttons[0].is_pressed
    /\ buttons[0].press_count = buttons[0].max_multi_press + 1
    /\ buttons[0].last_press_time # buttons[0].press_start_time

-----------------------------------------------------------------------------
(* The timeout check of a poll *)

\* this step is the call of _handle_buttons: the checks of every button
Polling == pc = "idle" /\ pc' = "handled"

\* the inputs the checks of this poll built for button i, HOLD aside
TimeoutInputs(i) == {x \in inputs' : x.button_number = i /\ x.action # "HOLD"}

\* C21: at a poll the timeout check emits for a button exactly when
\* press_count > 0, the button is not pressed and more than
\* multi_press_interval ticks (wrapping) have passed since last_press_time; it
\* then emits the action for press_count, stamped with the time of the poll,
\* and sets press_count to 0 and last_press_time to None, every other field
\* kept.  Otherwise it emits nothing and no field changes (is_holding is the
\* field of the hold check); a pressed button never gets a timeout action.
C21_TimeoutCheck ==
    [][\A i \in ButtonIds :
        Polling =>
            IF /\ buttons[i].press_count > 0
               /\ ~buttons[i].is_pressed
               /\ (now - buttons[i].last_press_time) % _TICKS_PERIOD > buttons[i].multi_press_interval
            THEN /\ TimeoutInputs(i) =
                        {[action |-> ActionFor(buttons[i].press_count),
                          button_number |-> i, timestamp |-> now]}
                 /\ buttons'[i] = [buttons[i] EXCEPT !.press_count = 0, !.last_press_time = None]
            ELSE /\ TimeoutInputs(i) = {}
                 /\ buttons'[i] = [buttons[i] EXCEPT !.is_holding = buttons'[i].is_holding]]_vars

\* C21 witness: the checks of a poll have just reported a run of one press,
\* timed out one tick after the interval had passed, as SHORT_PRESS stamped
\* with the time of the poll; the counters are reset.
C21_Witness ==
    /\ pc = "handled"
    /\ [action |-> "SHORT_PRESS", button_number |-> 0, timestamp |-> current_time] \in inputs
    /\ ~buttons[0].is_pressed
    /\ buttons[0].press_count = 0
    /\ buttons[0].last_press_time = None
    /\ timestamp_diff(current_time, buttons[0].press_start_time) = buttons[0].multi_press_interval + 1

-----------------------------------------------------------------------------
(* The cap of a run: max_multi_press *)

\* the actions a button with max_multi_press = m may report
ActionsUpTo ==
    [m \in 1 .. (MaxEvents + 1) |->
        {"SHORT_PRESS", "LONG_PRESS", "HOLD"} \cup {MultiPressName(n) : n \in 2 .. m}]

\* C23, the state part: press_count of a button never exceeds its
\* max_multi_press, and no input built for it reports more presses than that.
C23_Capped ==
    \A i \in ButtonIds :
        /\ buttons[i].max_multi_press >= 1
        /\ buttons[i].press_count <= buttons[i].max_multi_press
        /\ \A x \in inputs \cup emitted :
                x.button_number = i => x.action \in ActionsUpTo[buttons[i].max_multi_press]

\* C23, the step part: whenever a press goes to _handle_event, press_count of
\* its button is below max_multi_press.
C23_PressBelowMax ==
    \A k \in ButtonIds :
        (Handling /\ Head(queue).key_number = k /\ Head(queue).pressed) =>
            /\ buttons[k].press_count < buttons[k].max_multi_press
            /\ buttons'[k].press_count = buttons[k].press_count + 1

\* C23: for a key whose presses and releases reach the handler alternating,
\* press_count never exceeds max_multi_press, is below it whenever a press is
\* processed, and update never reports N_MULTI_PRESS with N above it.
C23_RunCapped == []C23_Capped /\ [][C23_PressBelowMax]_vars

\* C23 witness: the second press of a run has just been handled with
\* max_multi_press = 2, the first having been released short: the count has
\* reached the maximum.
C23_Witness ==
    /\ pc = "drain"
    /\ buttons[0].is_pressed
    /\ buttons[0].max_multi_press = 2
    /\ buttons[0].press_count = 2
    /\ Len(run_rel[0]) = 1

-----------------------------------------------------------------------------
(* HOLD and the release of the held press *)

\* C24: when update has returned HOLD for a button during a press, handing
\* the release of that press to _handle_event returns LONG_PRESS for it,
\* stamped with the release, and nothing else, also when the release was
\* already queued, with an earlier timestamp, at the poll that reported HOLD.
C24_HoldThenLongPress ==
    [][\A k \in ButtonIds :
        (/\ Handling
         /\ Head(queue).key_number = k
         /\ ~Head(queue).pressed
         /\ holds[k] > 0) =>
            /\ InputOf("LONG_PRESS", Head(queue)) \in emitted'
            /\ \A x \in emitted' \ emitted : x.action = "LONG_PRESS"]_vars

-----------------------------------------------------------------------------
(* Two keys: a handler of two buttons, each key wired and configured on its *)
(* own                                                                       *)

\* button 0 collects runs of up to two presses, button 1 reports every short
\* press at once
PairConfig == (0 :> ButtonInitConfig(TRUE, interval, threshold, 2)) @@ (1 :> ButtonInitConfig(FALSE, interval, threshold, 1))

InitPair == Constructed(StartTime, {0, 1}, PairConfig, <<>>)

NextPair ==
    \/ LiveTick
    \/ \E k \in DOMAIN keys : LiveScan(k)
    \/ UpdateBegin
    \/ DrainStep
    \/ DrainEnd
    \/ UpdateReturn

SpecPair == InitPair /\ [][NextPair]_vars

\* the inputs of set s that are for button i
InputsFor(s, i) == {x \in s : x.button_number = i}

\* C22, the state part: at every point of every call each button, and the
\* inputs collected for it, are what its own events, its configuration and
\* the poll times alone make them: those of a handler given only that
\* button's events.
C22_SameAsAlone ==
    \A i \in ButtonIds :
        /\ buttons[i] = alone[i].button
        /\ InputsFor(inputs, i) = alone[i].inputs

\* C22, the step part: an event changes no field of, and adds no input for,
\* a button other than its own; at a poll a button for which nothing is
\* emitted keeps every field, whatever is emitted for the others; and the
\* checks give the same buttons and inputs in whatever order the buttons are
\* taken.
C22_Frame ==
    /\ \A k \in ButtonIds :
        (Handling /\ Head(queue).key_number = k) =>
            \A j \in ButtonIds \ {k} :
                /\ buttons'[j] = buttons[j]
                /\ InputsFor(inputs', j) = InputsFor(inputs, j)
    /\ Polling =>
        /\ \A j \in ButtonIds : InputsFor(inputs', j) = {} => buttons'[j] = buttons[j]
        /\ \A order \in Orders : HandleButtonsLoop(order, buttons, now, {}) = <<buttons', inputs'>>

\* C22: buttons are independent: handling an event of button i, or a
\* time-triggered emission for it, leaves every other button as it was, and
\* what update returns for a button depends only on that button's events,
\* its configuration and the poll times, not on the other button's events nor
\* on the order in which the buttons are checked.
C22_Independent == []C22_SameAsAlone /\ [][C22_Frame]_vars

\* C22 witness: one call is about to return SHORT_PRESS for both buttons: for
\* button 0 by the timeout of its run, for button 1 by the release it drained.
C22_Witness ==
    /\ pc = "done"
    /\ \E x \in inputs \ emitted : x.action = "SHORT_PRESS" /\ x.button_number = 0
    /\ \E x \in emitted : x.action = "SHORT_PRESS" /\ x.button_number = 1
    /\ Cardinality(inputs) = 2

====
